---- MODULE Spec2Model ----
(***************************************************************************)
(* MongoDBStore (src/src/MongoDBStore.ts): the express-rate-limit store    *)
(* backed by a MongoDB collection.                                         *)
(*                                                                         *)
(* The model follows the JavaScript run-to-completion rule: one action is  *)
(* one synchronous stretch of code between two suspension points (an       *)
(* await on a storage round trip, or the settlement of the promise         *)
(* getCollection returns).  A storage round trip is one atomic step of the *)
(* database (findOneAndUpdate, findOne, deleteOne, deleteMany, createIndex *)
(* and MongoClient.connect), which is what the driver documents.  A round  *)
(* trip on an acquired collection handle is taken to complete; connect and *)
(* createIndex may fail.  `result?.value` (line 148) is the driver-5       *)
(* ModifyResult, whose value is the post-image.                            *)
(***************************************************************************)
EXTENDS Integers, Sequences, FiniteSets, TLC

\* ---------------------------------------------------------------- bounds
\* Total number of public operations issued in one behaviour.
MaxCalls == 2
\* Largest reading of the clock Date.now().
MaxTime == 1

\* ------------------------------------------------------- the environment
\* The calls of public operations, numbered in the order they are issued: each is
\* one caller awaiting its operation, and any number of them may be in flight.
Procs == 1..MaxCalls
\* The store objects that may be constructed.
Stores == {"A", "B"}
\* Raw keys handed to the store: strings, as sequences of characters.
Keys == {<<"a">>, <<"a", "a">>}
\* Values of options.prefix given by the constructing code.
Prefixes == {<<"p">>, <<"p", "a">>}
\* Values init() receives as options.windowMs.
WindowMsValues == {1}

\* An option left out of the options object (a tri-state flag is "true", "false"
\* or Undefined; a string option is a string or UndefinedString).
Undefined == "undefined"
UndefinedString == <<"undefined">>
\* this.windowMs before init() has assigned it (line 50 declares it unset).
UndefinedMs == -1
\* new Date(NaN): what line 143 builds when this.windowMs is undefined.
InvalidDate == -1
NoKey == <<>>

\* prefix default of the constructor, `options.prefix ?? "mongodb_rl_"`
DefaultPrefix == <<"m">>

\* this.collection / this.client before they are assigned.
NoHandle == [kind |-> "undefined", client |-> 0]
NoClient == 0
\* The handle of a collection supplied to the constructor.
SuppliedHandle == [kind |-> "supplied", client |-> 0]
\* this.client.db().collection(name) of the client the store connected itself.
OwnHandle(c) == [kind |-> "own", client |-> c]
\* The error a failed round trip of the acquisition throws: one object per failure.
AcquireError(s, stage, n) == [kind |-> "error", store |-> s, stage |-> stage, attempt |-> n]

OpNames == {"increment", "decrement", "get", "resetKey", "resetAll"}
NoOp == [name |-> "none", store |-> "none", key |-> NoKey]
NoResult == [kind |-> "none"]

VARIABLES
    workload,       \* what the callers of this run issue: [ops, keys, ticks]
    constructed,    \* the stores that exist
    storeOptions,   \* this.storeOptions of each store
    prefix,         \* this.prefix
    windowMs,       \* this.windowMs (UndefinedMs until init)
    collection,     \* this.collection (NoHandle or a handle)
    client,         \* this.client (NoClient or the id of a client)
    collectionState,\* this.collectionState
    resolveOrRejectOnCollectionCreation, \* the queued [resolve, reject] pairs, by caller
    records,        \* the documents of the database collection, by _id
    ttlIndex,       \* whether the collection has the TTL index on expirationDate
    openClients,    \* the clients MongoClient.connect has opened, each [id, store]
    now,            \* Date.now()
    pc,             \* where each caller's operation stands
    op,             \* the operation of each caller: [name, store, key]
    callTime,       \* the clock when the operation was called
    got,            \* what getCollection's promise settled with, for each caller
    newExpiry,      \* the local newExpiry of incrementOrDecrement
    result,         \* what the operation returned
    connects,       \* history: connection sequences each store started
    failures,       \* history: connection sequences of each store that failed
    applied         \* history: per _id, the counter the run found (0 when it created the
                    \* document), the increments and decrements completed since, and
                    \* the store whose upsert created the document ("none": found)

vars == <<workload, constructed, storeOptions, prefix, windowMs, collection, client,
          collectionState, resolveOrRejectOnCollectionCreation, records, ttlIndex,
          openClients, now, pc, op, callTime, got, newExpiry, result,
          connects, failures, applied>>

\* ------------------------------------------------------------ constructor
\* The option objects a store is constructed with (MongoDBStoreOptions):
\* mode "uri" stands for {uri, ...}, mode "collection" for {collection}.
OptionsSet ==
    [mode : {"uri", "collection"},
     prefix : {UndefinedString} \cup Prefixes,
     resetExpireDateOnChange : {Undefined, "true", "false"},
     createTtlIndex : {Undefined, "true", "false"}]

NoOptions == [mode |-> "none", prefix |-> UndefinedString,
              resetExpireDateOnChange |-> Undefined, createTtlIndex |-> Undefined]

\* constructor, line 76: this.prefix = options.prefix ?? "mongodb_rl_"
ConstructPrefix(o) == IF o.prefix = UndefinedString THEN DefaultPrefix ELSE o.prefix

\* constructor, lines 79-82: a supplied collection is kept and the state is initialized
ConstructCollection(o) == IF o.mode = "collection" THEN SuppliedHandle ELSE NoHandle

\* Faulty variant of ConstructState: line 81 left out, the state stays as declared.
ConstructStateUnset(o) == "uninitialized"

ConstructState(o) == IF o.mode = "collection" THEN "initialized" ELSE "uninitialized"

\* The state after `new MongoDBStore(o[s])` for the stores of cs (field initialisers
\* of lines 50-72, then the constructor), the database collection holding docs;
\* with ms a duration, the state once the middleware has also called
\* init({windowMs: ms}) on each of them (lines 85-87).
Started(w, cs, o, docs, ms) ==
    /\ workload = w
    /\ constructed = cs
    /\ storeOptions = [s \in Stores |-> IF s \in cs THEN o[s] ELSE NoOptions]
    /\ prefix = [s \in Stores |-> IF s \in cs THEN ConstructPrefix(o[s]) ELSE UndefinedString]
    /\ windowMs = [s \in Stores |-> IF s \in cs THEN ms ELSE UndefinedMs]
    /\ collection = [s \in Stores |-> IF s \in cs THEN ConstructCollection(o[s]) ELSE NoHandle]
    /\ client = [s \in Stores |-> NoClient]
    /\ collectionState = [s \in Stores |->
                            IF s \in cs THEN ConstructState(o[s]) ELSE "uninitialized"]
    /\ resolveOrRejectOnCollectionCreation = [s \in Stores |-> <<>>]
    /\ records = docs
    /\ ttlIndex = FALSE
    /\ openClients = {}
    /\ now = 0
    /\ pc = [p \in Procs |-> "idle"]
    /\ op = [p \in Procs |-> NoOp]
    /\ callTime = [p \in Procs |-> 0]
    /\ got = [p \in Procs |-> NoHandle]
    /\ newExpiry = [p \in Procs |-> 0]
    /\ result = [p \in Procs |-> NoResult]
    /\ connects = [s \in Stores |-> 0]
    /\ failures = [s \in Stores |-> 0]
    /\ applied = [i \in DOMAIN docs |->
                     [base |-> docs[i].counter, inc |-> 0, dec |-> 0, by |-> "none"]]

\* The state right after construction: init has not run, windowMs is unset.
Construct(w, cs, o, docs) == Started(w, cs, o, docs, UndefinedMs)

\* ------------------------------------------------------------------ init
\* init(options): this.windowMs = options.windowMs
init(s, w) ==
    /\ s \in constructed
    /\ windowMs' = [windowMs EXCEPT ![s] = w]
    /\ UNCHANGED <<workload, constructed, storeOptions, prefix, collection, client,
                   collectionState, resolveOrRejectOnCollectionCreation, records,
                   ttlIndex, openClients, now, pc, op, callTime, got, newExpiry,
                   result, connects, failures, applied>>

\* Faulty variant of prefixKey: the prefix left out of the _id.
prefixKeyNoPrefix(s, key) == key

\* prefixKey: `${this.prefix}${key}`
prefixKey(s, key) == prefix[s] \o key

\* ---------------------------------------------------------- getCollection
\* The callers whose [resolve, reject] pair is queued on store s.
Waiters(s) ==
    {resolveOrRejectOnCollectionCreation[s][i] :
        i \in 1..Len(resolveOrRejectOnCollectionCreation[s])}

\* Faulty variant of GetCollectionBranch: the check of lines 160-163 left out, so
\* a caller that finds no collection always connects.
GetCollectionBranchNoQueue(s) ==
    IF collectionState[s] = "initialized" THEN "resolve" ELSE "start"

\* Lines 155-165: what the executor of getCollection's promise does, by state:
\* resolve at once, queue the caller, or become the initiator.
GetCollectionBranch(s) ==
    CASE collectionState[s] = "initialized" -> "resolve"
      [] collectionState[s] = "initializing" -> "queue"
      [] OTHER -> "start"

\* Faulty variant of Settled: the loops of lines 179-181 and 188-190 left out.
SettledInitiatorOnly(s, p) == {p}

\* Lines 177-181 and 186-190: the callers one acquisition round settles, the
\* initiator p (resolve / reject) and every queued pair.
Settled(s, p) == {p} \cup Waiters(s)

\* Faulty variant of CreatesTtlIndex: the default of an unset option taken as false.
CreatesTtlIndexOnlyTrue(o) == o.createTtlIndex = "true"

\* Line 171: whether the acquisition creates the TTL index.
CreatesTtlIndex(o) == o.createTtlIndex = Undefined \/ o.createTtlIndex = "true"

\* Faulty variant of ClearedQueue: line 195 left out, the settled pairs stay queued.
ClearedQueueKept(queue) == queue

\* Line 195: this.resolveOrRejectOnCollectionCreation = [] once the round is over.
ClearedQueue(queue) == <<>>

\* Lines 175-181, 195: the round of initiator p succeeds with handle h.
ResolveRound(s, p, h) ==
    /\ collectionState' = [collectionState EXCEPT ![s] = "initialized"]
    /\ got' = [q \in Procs |-> IF q \in Settled(s, p) THEN h ELSE got[q]]
    /\ pc' = [q \in Procs |-> IF q \in Settled(s, p) THEN "acquired" ELSE pc[q]]
    /\ resolveOrRejectOnCollectionCreation' =
           [resolveOrRejectOnCollectionCreation EXCEPT ![s] = ClearedQueue(@)]
    /\ failures' = failures

\* Faulty variant of StateAfterFailure: line 184 left out.
StateAfterFailureStuck == "initializing"

\* The state the catch block leaves (line 184).
StateAfterFailure == "uninitialized"

\* Lines 182-195: the round of initiator p fails with error e.  A rejected
\* getCollection rejects the public operation awaiting it.
RejectRound(s, p, e) ==
    /\ collectionState' = [collectionState EXCEPT ![s] = StateAfterFailure]
    /\ got' = [q \in Procs |-> IF q \in Settled(s, p) THEN e ELSE got[q]]
    /\ pc' = [q \in Procs |-> IF q \in Settled(s, p) THEN "failed" ELSE pc[q]]
    /\ result' = [q \in Procs |-> IF q \in Settled(s, p) THEN e ELSE result[q]]
    /\ resolveOrRejectOnCollectionCreation' =
           [resolveOrRejectOnCollectionCreation EXCEPT ![s] = ClearedQueue(@)]
    /\ failures' = [failures EXCEPT ![s] = @ + 1]

\* A public operation is called: increment, decrement, get, resetKey and resetAll
\* all run synchronously into getCollection (lines 95/104 -> 133, 108, 121, 127),
\* whose executor runs up to its first await.
Call(p, s, name, key) ==
    /\ pc[p] = "idle"
    /\ \A q \in Procs : q < p => pc[q] # "idle"
    /\ s \in constructed
    /\ name \in workload.ops
    /\ key \in workload.keys \cup {NoKey}
    /\ op' = [op EXCEPT ![p] = [name |-> name, store |-> s, key |-> key]]
    /\ callTime' = [callTime EXCEPT ![p] = now]
    /\ CASE GetCollectionBranch(s) = "resolve" ->
              /\ got' = [got EXCEPT ![p] = collection[s]]
              /\ pc' = [pc EXCEPT ![p] = "acquired"]
              /\ UNCHANGED <<collectionState, resolveOrRejectOnCollectionCreation, connects>>
         [] GetCollectionBranch(s) = "queue" ->
              /\ resolveOrRejectOnCollectionCreation' =
                     [resolveOrRejectOnCollectionCreation EXCEPT ![s] = Append(@, p)]
              /\ pc' = [pc EXCEPT ![p] = "queued"]
              /\ UNCHANGED <<collectionState, got, connects>>
         [] OTHER ->
              \* line 165, then createCollection up to MongoClient.connect (line 219)
              /\ collectionState' = [collectionState EXCEPT ![s] = "initializing"]
              /\ connects' = [connects EXCEPT ![s] = @ + 1]
              /\ pc' = [pc EXCEPT ![p] = "connecting"]
              /\ UNCHANGED <<resolveOrRejectOnCollectionCreation, got>>
    /\ UNCHANGED <<workload, constructed, storeOptions, prefix, windowMs, collection, client,
                   records, ttlIndex, openClients, now, newExpiry, result,
                   failures, applied>>

\* MongoClient.connect resolves (line 219): the client is kept, the collection is
\* selected (221) and assigned (169); then createIndex is awaited (172) or, when
\* the index is disabled, the round ends (175-181, 195).
ConnectDone(p) ==
    /\ pc[p] = "connecting"
    /\ LET s == op[p].store
           c == Cardinality(openClients) + 1
       IN  /\ client' = [client EXCEPT ![s] = c]
           /\ openClients' = openClients \cup {[id |-> c, store |-> s]}
           /\ collection' = [collection EXCEPT ![s] = OwnHandle(c)]
           /\ IF CreatesTtlIndex(storeOptions[s])
                 THEN /\ pc' = [pc EXCEPT ![p] = "indexing"]
                      /\ UNCHANGED <<collectionState, got,
                                     resolveOrRejectOnCollectionCreation, failures>>
                 ELSE ResolveRound(s, p, OwnHandle(c))
    /\ UNCHANGED <<workload, constructed, storeOptions, prefix, windowMs, records, ttlIndex,
                   now, op, callTime, newExpiry, result, connects, applied>>

\* MongoClient.connect rejects: createCollection throws into the catch block.
ConnectFail(p) ==
    /\ pc[p] = "connecting"
    /\ LET s == op[p].store
       IN  RejectRound(s, p, AcquireError(s, "connect", connects[s]))
    /\ UNCHANGED <<workload, constructed, storeOptions, prefix, windowMs, collection, client,
                   records, ttlIndex, openClients, now, op, callTime, newExpiry,
                   connects, applied>>

\* createIndex({expirationDate: 1}, {expireAfterSeconds: 0}) resolves (line 172).
IndexDone(p) ==
    /\ pc[p] = "indexing"
    /\ ttlIndex' = TRUE
    /\ ResolveRound(op[p].store, p, collection[op[p].store])
    /\ UNCHANGED <<workload, constructed, storeOptions, prefix, windowMs, collection, client,
                   records, openClients, now, op, callTime, newExpiry, result,
                   connects, applied>>

\* createIndex rejects: the catch block runs with the client and collection kept.
IndexFail(p) ==
    /\ pc[p] = "indexing"
    /\ LET s == op[p].store
       IN  RejectRound(s, p, AcquireError(s, "createIndex", connects[s]))
    /\ UNCHANGED <<workload, constructed, storeOptions, prefix, windowMs, collection, client,
                   records, ttlIndex, openClients, now, op, callTime, newExpiry,
                   connects, applied>>

\* ------------------------------------------------------ the storage engine
\* The document of a counter (MongoDBStoreEntry without its _id, which keys it).
Entry(c, e) == [counter |-> c, expirationDate |-> e]

\* findOne({_id: id}): the document, or null.
NullDocument == [found |-> FALSE]

findOne(recs, id) ==
    IF id \in DOMAIN recs
        THEN [found |-> TRUE, counter |-> recs[id].counter,
              expirationDate |-> recs[id].expirationDate]
        ELSE NullDocument

\* Faulty variant of Inc: the counter written instead of incremented ($set for $inc).
IncOverwrite(counter, byValue) == byValue

\* $inc: {counter: byValue} on a stored counter.
Inc(counter, byValue) == counter + byValue

\* findOneAndUpdate({_id: id}, modifier, {upsert: true}): the collection after the
\* atomic update.  modifier is {$inc: {counter: byValue}, [field]: {expirationDate:
\* expiry}} with field "$set" or "$setOnInsert"; an upsert inserts the document
\* with $inc applied to an absent field (0) and both $set and $setOnInsert applied.
findOneAndUpdate(recs, id, byValue, field, expiry) ==
    IF id \in DOMAIN recs
        THEN [recs EXCEPT ![id] =
                 Entry(Inc(@.counter, byValue),
                       IF field = "$set" THEN expiry ELSE @.expirationDate)]
        ELSE [i \in DOMAIN recs \cup {id} |->
                 IF i = id THEN Entry(Inc(0, byValue), expiry) ELSE recs[i]]

\* Faulty variant of deleteOne: the filter left out ({} for {_id: id}).
deleteOneNoFilter(recs, id) == [i \in {} |-> recs[i]]

\* deleteOne({_id: id})
deleteOne(recs, id) == [i \in DOMAIN recs \ {id} |-> recs[i]]

\* Faulty variant of deleteMany: deleteOne({}) for deleteMany({}), which removes
\* the first document only.
deleteManyFirstOnly(recs) ==
    IF DOMAIN recs = {} THEN recs
    ELSE deleteOne(recs, CHOOSE i \in DOMAIN recs : TRUE)

\* deleteMany({})
deleteMany(recs) == [i \in {} |-> recs[i]]

\* ------------------------------------------------------- counter operations
\* Faulty variant of NewExpiry: the window left out (new Date(Date.now())).
NewExpiryNoWindow(t, w) == t

\* Faulty variant of NewExpiry: an undefined windowMs taken as 0.
NewExpiryZeroWindow(t, w) == IF w = UndefinedMs THEN t ELSE t + w

\* Line 143: new Date(Date.now() + this.windowMs); undefined windowMs gives NaN.
NewExpiry(t, w) == IF w = UndefinedMs THEN InvalidDate ELSE t + w

\* Lines 95 and 104: the delta of the public operation.
ByValue(name) == IF name = "increment" THEN 1 ELSE -1

\* Faulty variants of ExpiryField: the option ignored, one way and the other.
ExpiryFieldAlwaysSet(o) == "$set"

ExpiryFieldNeverSet(o) == "$setOnInsert"

\* Faulty variant of ExpiryField: the condition of line 145 inverted.
ExpiryFieldInverted(o) ==
    IF o.resetExpireDateOnChange = "true" THEN "$setOnInsert" ELSE "$set"

\* Line 145: the update operator that carries expirationDate.
ExpiryField(o) == IF o.resetExpireDateOnChange = "true" THEN "$set" ELSE "$setOnInsert"

\* Lines 97-100 and 113-116: {totalHits: record.counter, resetTime: record.expirationDate}
RateLimitInfo(record) ==
    [kind |-> "info", totalHits |-> record.counter, resetTime |-> record.expirationDate]

VoidResult == [kind |-> "void"]
UndefinedResult == [kind |-> "undefined"]

\* Faulty variant of GetResult: the return of lines 113-116 left out.
GetResultNoReturn(record) == UndefinedResult

\* Lines 112-118: get's answer for what findOne returned.
GetResult(record) == IF record.found THEN RateLimitInfo(record) ELSE UndefinedResult

\* Faulty variant of ReturnedDocument: returnDocument 'before', the pre-image (the
\* inserted document when there was none).
ReturnedDocumentBefore(before, after, id) ==
    IF id \in DOMAIN before THEN before[id] ELSE after[id]

\* Lines 147-148: with returnDocument 'after', result.value is the post-image.
ReturnedDocument(before, after, id) == after[id]

\* The _id the operation of caller p addresses.
IdOf(p) == prefixKey(op[p].store, op[p].key)

\* History of an _id after one more increment or decrement of store s completed.
Count(a, id, name, s) ==
    LET old == IF id \in DOMAIN a THEN a[id]
                                  ELSE [base |-> 0, inc |-> 0, dec |-> 0, by |-> s]
        new == IF name = "increment" THEN [old EXCEPT !.inc = @ + 1]
                                     ELSE [old EXCEPT !.dec = @ + 1]
    IN  [i \in DOMAIN a \cup {id} |-> IF i = id THEN new ELSE a[i]]

\* incrementOrDecrement resumes with the collection (line 133 -> 135-147): it
\* builds the modifier, reads the clock and sends findOneAndUpdate.
Prepare(p) ==
    /\ pc[p] = "acquired"
    /\ op[p].name \in {"increment", "decrement"}
    /\ newExpiry' = [newExpiry EXCEPT ![p] = NewExpiry(now, windowMs[op[p].store])]
    /\ pc' = [pc EXCEPT ![p] = "updating"]
    /\ UNCHANGED <<workload, constructed, storeOptions, prefix, windowMs, collection, client,
                   collectionState, resolveOrRejectOnCollectionCreation, records,
                   ttlIndex, openClients, now, op, callTime, got, result, connects, failures, applied>>

\* The database applies findOneAndUpdate and the operation returns (147-150,
\* then 97-100 for increment; decrement returns nothing).
Update(p) ==
    /\ pc[p] = "updating"
    /\ LET s == op[p].store
           id == IdOf(p)
           after == findOneAndUpdate(records, id, ByValue(op[p].name),
                                     ExpiryField(storeOptions[s]), newExpiry[p])
       IN  /\ records' = after
           /\ applied' = Count(applied, id, op[p].name, s)
           /\ result' = [result EXCEPT ![p] =
                            IF op[p].name = "increment"
                                THEN RateLimitInfo(ReturnedDocument(records, after, id))
                                ELSE VoidResult]
    /\ pc' = [pc EXCEPT ![p] = "done"]
    /\ UNCHANGED <<workload, constructed, storeOptions, prefix, windowMs, collection, client,
                   collectionState, resolveOrRejectOnCollectionCreation, ttlIndex,
                   openClients, now, op, callTime, got, newExpiry, connects,
                   failures>>

\* get resumes with the collection: findOne and the answer (lines 110-118).
Get(p) ==
    /\ pc[p] = "acquired"
    /\ op[p].name = "get"
    /\ result' = [result EXCEPT ![p] = GetResult(findOne(records, IdOf(p)))]
    /\ pc' = [pc EXCEPT ![p] = "done"]
    /\ UNCHANGED <<workload, constructed, storeOptions, prefix, windowMs, collection, client,
                   collectionState, resolveOrRejectOnCollectionCreation, records,
                   ttlIndex, openClients, now, op, callTime, got, newExpiry, connects, failures, applied>>

\* resetKey resumes with the collection: deleteOne (line 123).
ResetKey(p) ==
    /\ pc[p] = "acquired"
    /\ op[p].name = "resetKey"
    /\ records' = deleteOne(records, IdOf(p))
    /\ applied' = deleteOne(applied, IdOf(p))
    /\ result' = [result EXCEPT ![p] = VoidResult]
    /\ pc' = [pc EXCEPT ![p] = "done"]
    /\ UNCHANGED <<workload, constructed, storeOptions, prefix, windowMs, collection, client,
                   collectionState, resolveOrRejectOnCollectionCreation, ttlIndex,
                   openClients, now, op, callTime, got, newExpiry, connects,
                   failures>>

\* resetAll resumes with the collection: deleteMany({}) (line 129).
ResetAll(p) ==
    /\ pc[p] = "acquired"
    /\ op[p].name = "resetAll"
    /\ records' = deleteMany(records)
    /\ applied' = deleteMany(applied)
    /\ result' = [result EXCEPT ![p] = VoidResult]
    /\ pc' = [pc EXCEPT ![p] = "done"]
    /\ UNCHANGED <<workload, constructed, storeOptions, prefix, windowMs, collection, client,
                   collectionState, resolveOrRejectOnCollectionCreation, ttlIndex,
                   openClients, now, op, callTime, got, newExpiry, connects,
                   failures>>

\* The caller takes the outcome of its operation (the promise the public
\* operation returned settles): the call is over.
Finish(p) ==
    /\ pc[p] \in {"done", "failed"}
    /\ pc' = [pc EXCEPT ![p] = "returned"]
    /\ op' = [op EXCEPT ![p] = NoOp]
    /\ callTime' = [callTime EXCEPT ![p] = 0]
    /\ got' = [got EXCEPT ![p] = NoHandle]
    /\ newExpiry' = [newExpiry EXCEPT ![p] = 0]
    /\ result' = [result EXCEPT ![p] = NoResult]
    /\ UNCHANGED <<workload, constructed, storeOptions, prefix, windowMs, collection, client,
                   collectionState, resolveOrRejectOnCollectionCreation, records,
                   ttlIndex, openClients, now, connects, failures, applied>>

\* ---------------------------------------------------------- the environment
\* Time passes.
Tick ==
    /\ workload.ticks
    /\ now < MaxTime
    /\ now' = now + 1
    /\ UNCHANGED <<workload, constructed, storeOptions, prefix, windowMs, collection, client,
                   collectionState, resolveOrRejectOnCollectionCreation, records,
                   ttlIndex, openClients, pc, op, callTime, got, newExpiry, result,
                   connects, failures, applied>>

\* A document the TTL monitor may remove: its expirationDate has passed
\* (expireAfterSeconds: 0).  An invalid date is stored as no instant ahead of the
\* clock, so the monitor may remove it at any time.
Expired(recs, id) ==
    recs[id].expirationDate = InvalidDate \/ recs[id].expirationDate <= now

\* The TTL monitor of the database removes an expired document (an index created
\* by line 172 is what enables it).
TtlSweep(id) ==
    /\ ttlIndex
    /\ id \in DOMAIN records
    /\ Expired(records, id)
    /\ records' = deleteOne(records, id)
    /\ applied' = deleteOne(applied, id)
    /\ UNCHANGED <<workload, constructed, storeOptions, prefix, windowMs, collection, client,
                   collectionState, resolveOrRejectOnCollectionCreation, ttlIndex,
                   openClients, now, pc, op, callTime, got, newExpiry, result,
                   connects, failures>>

\* ------------------------------------------------------------- workloads
\* What the callers of one run issue: the operations and raw keys they use and
\* whether the clock advances during the run.
Workload(ops, keys, ticks) == [ops |-> ops, keys |-> keys, ticks |-> ticks]

Options(mode, pfx, reset, ttl) ==
    [mode |-> mode, prefix |-> pfx, resetExpireDateOnChange |-> reset,
     createTtlIndex |-> ttl]

Flags == {Undefined, "true", "false"}
NoDocuments == [i \in {} |-> Entry(0, 0)]

\* Any mix of the five operations on one key, against a store of either
\* configuration shape and any createTtlIndex.
InitAcquire ==
    \E mode \in {"uri", "collection"}, ttl \in Flags :
        Construct(Workload(OpNames, {<<"a">>}, FALSE), {"A"},
                  [s \in Stores |-> Options(mode, UndefinedString, Undefined, ttl)],
                  NoDocuments)

\* Increments and decrements of one key while time passes: a store that connects
\* itself, with resetExpireDateOnChange on or off and the TTL index created or
\* not, and a store given its collection, with resetExpireDateOnChange left out.
InitCount ==
    \/ \E reset \in {"true", "false"}, ttl \in {Undefined, "false"} :
           Construct(Workload({"increment", "decrement"}, {<<"a">>}, TRUE), {"A"},
                     [s \in Stores |-> Options("uri", UndefinedString, reset, ttl)],
                     NoDocuments)
    \/ Construct(Workload({"increment", "decrement"}, {<<"a">>}, TRUE), {"A"},
                 [s \in Stores |->
                     Options("collection", UndefinedString, Undefined, Undefined)],
                 NoDocuments)

\* Writes, reads and resets of two keys under a given or the default prefix, the
\* collection holding a document written earlier under one of the two prefixes.
InitReset ==
    \E pfx \in {UndefinedString, <<"p">>},
       docs \in {[i \in {pre \o <<"a", "a">>} |-> Entry(1, 1)] :
                    pre \in {DefaultPrefix, <<"p">>}} :
        Construct(Workload({"increment", "get", "resetKey", "resetAll"}, Keys, FALSE),
                  {"A"},
                  [s \in Stores |-> Options("collection", pfx, Undefined, "false")],
                  docs)

\* Two stores given one and the same collection under two prefixes, either
\* the default and "p" or "p" and "pa" (one an initial segment of the other),
\* both set up by the middleware (init called); the collection holds one
\* document written earlier under each prefix.
SharedPrefixes == {<<UndefinedString, <<"p">>>>, <<<<"p">>, <<"p", "a">>>>}

Leftovers(pa, pb) ==
    [i \in {pa \o <<"a">>, pb \o <<"a", "a">>} |-> Entry(1, 1)]

InitShared ==
    \E pp \in SharedPrefixes :
        LET o == [s \in Stores |->
                     Options("collection", IF s = "A" THEN pp[1] ELSE pp[2],
                             Undefined, "false")]
        IN  \E ms \in WindowMsValues :
                Started(Workload(OpNames, Keys, FALSE), Stores, o,
                        Leftovers(ConstructPrefix(o["A"]), ConstructPrefix(o["B"])), ms)

\* Increments of a key while time passes, its record left in the collection
\* by an earlier window that ended at clock 0: a store set up by the middleware
\* that connects itself, with the TTL index created or not.
InitStale ==
    \E ttl \in {Undefined, "false"}, ms \in WindowMsValues :
        Started(Workload({"increment"}, {<<"a">>}, TRUE), {"A"},
                [s \in Stores |-> Options("uri", UndefinedString, Undefined, ttl)],
                [i \in {DefaultPrefix \o <<"a">>} |-> Entry(1, 0)], ms)

Init == InitAcquire \/ InitCount \/ InitReset \/ InitShared \/ InitStale

\* ----------------------------------------------------------- specification
Next ==
    \/ \E s \in Stores, w \in WindowMsValues : init(s, w)
    \/ \E p \in Procs, s \in Stores, name \in OpNames \ {"resetAll"}, key \in Keys :
           Call(p, s, name, key)
    \/ \E p \in Procs, s \in Stores : Call(p, s, "resetAll", NoKey)
    \/ \E p \in Procs : ConnectDone(p)
    \/ \E p \in Procs : ConnectFail(p)
    \/ \E p \in Procs : IndexDone(p)
    \/ \E p \in Procs : IndexFail(p)
    \/ \E p \in Procs : Prepare(p)
    \/ \E p \in Procs : Update(p)
    \/ \E p \in Procs : Get(p)
    \/ \E p \in Procs : ResetKey(p)
    \/ \E p \in Procs : ResetAll(p)
    \/ \E p \in Procs : Finish(p)
    \/ Tick
    \/ \E id \in DOMAIN records : TtlSweep(id)

Spec == Init /\ [][Next]_vars

\* Any mix of the five operations on one key against a store that connects
\* itself and creates the TTL index or not.
InitLive ==
    \E ttl \in {Undefined, "false"} :
        Construct(Workload(OpNames, {<<"a">>}, FALSE), {"A"},
                  [s \in Stores |-> Options("uri", UndefinedString, Undefined, ttl)],
                  NoDocuments)

\* The steps of the store and the database while the clock reading stays the
\* same: the acquisition has no timeout and reads no clock.
NextClockStill ==
    \/ \E s \in Stores, w \in WindowMsValues : init(s, w)
    \/ \E p \in Procs, s \in Stores, name \in OpNames \ {"resetAll"}, key \in Keys :
           Call(p, s, name, key)
    \/ \E p \in Procs, s \in Stores : Call(p, s, "resetAll", NoKey)
    \/ \E p \in Procs : ConnectDone(p)
    \/ \E p \in Procs : ConnectFail(p)
    \/ \E p \in Procs : IndexDone(p)
    \/ \E p \in Procs : IndexFail(p)
    \/ \E p \in Procs : Prepare(p)
    \/ \E p \in Procs : Update(p)
    \/ \E p \in Procs : Get(p)
    \/ \E p \in Procs : ResetKey(p)
    \/ \E p \in Procs : ResetAll(p)
    \/ \E p \in Procs : Finish(p)
    \/ \E id \in DOMAIN records : TtlSweep(id)

\* Every round trip of the acquisition completes: MongoClient.connect (line 219)
\* and createIndex (line 172) each resolve or reject in the end.
RoundTripsComplete ==
    \A p \in Procs :
        /\ WF_vars(ConnectDone(p) \/ ConnectFail(p))
        /\ WF_vars(IndexDone(p) \/ IndexFail(p))

FairSpec == InitLive /\ [][NextClockStill]_vars /\ RoundTripsComplete

\* ------------------------------------------------------------- properties
\* The callers running the connection sequence of store s (connect, then
\* createIndex).
InFlight(s) == {p \in Procs : op[p].store = s /\ pc[p] \in {"connecting", "indexing"}}

UriStores == {s \in constructed : storeOptions[s].mode = "uri"}
CollectionStores == {s \in constructed : storeOptions[s].mode = "collection"}

\* C1 (single-flight): at most one connection sequence of a store is in flight,
\* it is in flight exactly while the state is initializing, callers are queued
\* only then, and the sequences started number one per failed round plus one for
\* the round in flight or succeeded: however many operations were issued before
\* a handle existed, they started one sequence unless it failed.
C1_SingleFlight ==
    \A s \in UriStores :
        /\ Cardinality(InFlight(s)) <= 1
        /\ (collectionState[s] = "initializing") <=> (InFlight(s) # {})
        /\ Waiters(s) # {} => collectionState[s] = "initializing"
        /\ Waiters(s) \cap InFlight(s) = {}
        /\ connects[s] = failures[s]
                           + (IF collectionState[s] = "uninitialized" THEN 0 ELSE 1)

\* Two operations issued before any handle exists: one runs the only connection
\* sequence, the other is queued.
C1_Witness ==
    \E s \in UriStores :
        /\ InFlight(s) # {}
        /\ Waiters(s) # {}
        /\ connects[s] = 1

\* The step in which the acquisition round of store s ends.
RoundEnds(s) == collectionState[s] = "initializing" /\ collectionState'[s] # "initializing"

\* C2 (same outcome): the step that ends a round settles the initiator and every
\* queued caller with one and the same value, the collection handle for all of
\* them or the error for all of them, and leaves nobody queued.
C2_SameOutcome ==
    [][\A s \in UriStores :
          RoundEnds(s) =>
              LET round == InFlight(s) \cup Waiters(s)
              IN  /\ \A p, q \in round : got'[p] = got'[q] /\ pc'[p] = pc'[q]
                  /\ \A p \in round :
                        \/ pc'[p] = "acquired" /\ got'[p] = collection'[s]
                                               /\ got'[p].kind = "own"
                        \/ pc'[p] = "failed" /\ got'[p].kind = "error"
                                             /\ result'[p] = got'[p]
                  /\ \A p \in Procs : pc'[p] = "queued" => op[p].store # s
      ]_vars

\* A failed round with a queued caller: both callers hold the same error.
C2_Witness ==
    \E p, q \in Procs :
        /\ p # q
        /\ pc[p] = "failed" /\ pc[q] = "failed"
        /\ got[p].kind = "error"
        /\ got[p] = got[q]

\* C3 (failure recovery): a failed round leaves the state uninitialized with no
\* sequence in flight and none started; a sequence is started only by an
\* operation called in the uninitialized state, and every such call starts one.
C3_FailureRecovery ==
    [][\A s \in UriStores :
          /\ (\E p \in InFlight(s) : pc'[p] = "failed") =>
                 /\ collectionState'[s] = "uninitialized"
                 /\ InFlight(s)' = {}
                 /\ connects'[s] = connects[s]
          /\ connects'[s] # connects[s] =>
                 /\ connects'[s] = connects[s] + 1
                 /\ collectionState[s] = "uninitialized"
                 /\ \E p \in Procs : /\ pc[p] = "idle"
                                     /\ pc'[p] = "connecting"
                                     /\ op'[p].store = s
          /\ \A p \in Procs :
                 (pc[p] = "idle" /\ pc'[p] # "idle" /\ op'[p].store = s
                    /\ collectionState[s] = "uninitialized") =>
                 /\ pc'[p] = "connecting"
                 /\ collectionState'[s] = "initializing"
                 /\ connects'[s] = connects[s] + 1
      ]_vars

\* After a failed round, a later operation acquired the collection.
C3_Witness ==
    \E s \in UriStores :
        /\ failures[s] >= 1
        /\ collectionState[s] = "initialized"
        /\ \E p \in Procs : pc[p] = "acquired" /\ op[p].store = s

\* C4 (supplied collection): a store constructed with a collection is and stays
\* initialized, never starts a connection sequence, never has a client, and every
\* operation on it runs on the supplied handle.
C4_SuppliedCollection ==
    \A s \in CollectionStores :
        /\ collectionState[s] = "initialized"
        /\ collection[s] = SuppliedHandle
        /\ connects[s] = 0
        /\ client[s] = NoClient
        /\ \A c \in openClients : c.store # s
        /\ \A p \in Procs :
              (op[p].store = s /\ pc[p] # "idle") =>
                  /\ pc[p] \in {"acquired", "updating", "done", "returned"}
                  /\ got[p] = SuppliedHandle

\* An operation on a store with a supplied collection has completed.
C4_Witness ==
    \E s \in CollectionStores, p \in Procs :
        /\ op[p].store = s
        /\ pc[p] = "done"
        /\ got[p] = SuppliedHandle

\* The steps of caller p: incrementOrDecrement resuming with the collection, the
\* database applying its findOneAndUpdate, and get / resetKey doing their round trip.
PrepareStep(p) == pc[p] = "acquired" /\ pc'[p] = "updating"
UpdateStep(p) == pc[p] = "updating" /\ pc'[p] = "done"
GetStep(p) == op[p].name = "get" /\ pc[p] = "acquired" /\ pc'[p] = "done"
ResetKeyStep(p) == op[p].name = "resetKey" /\ pc[p] = "acquired" /\ pc'[p] = "done"

\* The _id of the claims: the prefix of the store followed by the raw key.
PrefixedId(p) == prefix[op[p].store] \o op[p].key

\* Whether s is a store that refreshes the expiration on every change.
ResetsExpiry(s) == s \in constructed /\ storeOptions[s].resetExpireDateOnChange = "true"

\* The counter the history of an _id gives: what the run found, plus the
\* increments, minus the decrements completed since.
Net(a) == a.base + a.inc - a.dec

\* C5 (counter atomicity): after every step each stored counter equals the
\* number of increments minus the number of decrements completed on its _id
\* since the record was created (counting from the counter found, 0 for a
\* record the run created), and get returns that number as totalHits.
C5_CounterAtomicity ==
    [][/\ \A id \in DOMAIN records' :
             /\ id \in DOMAIN applied'
             /\ records'[id].counter = Net(applied'[id])
       /\ \A p \in Procs :
             (GetStep(p) /\ PrefixedId(p) \in DOMAIN records) =>
                 /\ result'[p].kind = "info"
                 /\ result'[p].totalHits = Net(applied[PrefixedId(p)])
      ]_vars

\* A record the run created has had increments and decrements completed on it.
C5_Witness ==
    \E id \in DOMAIN records :
        /\ applied[id].base = 0
        /\ applied[id].inc >= 1
        /\ applied[id].dec >= 1
        /\ records[id].counter = applied[id].inc - applied[id].dec

\* C6 as stated (upsert on absent, expiration counted from the time of the call):
\* an increment that finds no record creates it with counter 1 and expirationDate
\* equal to the time increment was called plus windowMs.
C6_ExpiryFromCallTime ==
    [][\A p \in Procs :
          (/\ UpdateStep(p)
           /\ op[p].name = "increment"
           /\ PrefixedId(p) \notin DOMAIN records
           /\ newExpiry[p] # InvalidDate) =>
              records'[PrefixedId(p)] =
                  Entry(1, callTime[p] + windowMs[op[p].store])
      ]_vars

\* C6 amended (upsert on absent): incrementOrDecrement reads the clock when it
\* resumes with the collection handle, no earlier than the call, and computes
\* that reading plus windowMs; an increment that finds no record creates exactly
\* the record prefix+key with counter 1 and that expirationDate and returns
\* totalHits 1 with that resetTime; on an existing record it returns the stored
\* counter plus 1 and adds no record.
C6_UpsertOnAbsent ==
    [][\A p \in Procs :
          /\ (PrepareStep(p) /\ windowMs[op[p].store] # UndefinedMs) =>
                 /\ newExpiry'[p] = now + windowMs[op[p].store]
                 /\ callTime[p] <= now
          /\ (UpdateStep(p) /\ op[p].name = "increment") =>
                 LET id == PrefixedId(p)
                 IN  IF id \notin DOMAIN records
                        THEN /\ DOMAIN records' = DOMAIN records \cup {id}
                             /\ records'[id] = Entry(1, newExpiry[p])
                             /\ result'[p] = [kind |-> "info", totalHits |-> 1,
                                              resetTime |-> newExpiry[p]]
                             /\ \A i \in DOMAIN records : records'[i] = records[i]
                        ELSE /\ DOMAIN records' = DOMAIN records
                             /\ records'[id].counter = records[id].counter + 1
                             /\ result'[p].kind = "info"
                             /\ result'[p].totalHits = records[id].counter + 1
      ]_vars

\* An increment created its record with an expiration later than the time of
\* the call plus windowMs: time passed before it had the collection.
C6_Witness ==
    \E p \in Procs :
        /\ pc[p] = "done"
        /\ op[p].name = "increment"
        /\ newExpiry[p] # InvalidDate
        /\ newExpiry[p] > callTime[p] + windowMs[op[p].store]
        /\ result[p] = [kind |-> "info", totalHits |-> 1, resetTime |-> newExpiry[p]]
        /\ PrefixedId(p) \in DOMAIN records
        /\ records[PrefixedId(p)] = Entry(1, newExpiry[p])
        /\ applied[PrefixedId(p)] =
               [base |-> 0, inc |-> 1, dec |-> 0, by |-> op[p].store]

\* C7 (expiration kept): with resetExpireDateOnChange false or unset, no step
\* changes the expirationDate of a record that exists before and after it.
C7_ExpiryKept ==
    [][(\A s \in constructed : ~ResetsExpiry(s)) =>
          \A id \in DOMAIN records \cap DOMAIN records' :
              records'[id].expirationDate = records[id].expirationDate
      ]_vars

\* With the option off, an increment or decrement that computed another
\* expiration has completed on a record, which kept its own.
C7_Witness ==
    \E p \in Procs :
        /\ pc[p] = "done"
        /\ ~ResetsExpiry(op[p].store)
        /\ op[p].name \in {"increment", "decrement"}
        /\ PrefixedId(p) \in DOMAIN records
        /\ newExpiry[p] # InvalidDate
        /\ records[PrefixedId(p)].expirationDate # InvalidDate
        /\ records[PrefixedId(p)].expirationDate < newExpiry[p]

\* C8 (expiration refreshed): with resetExpireDateOnChange true, every increment
\* and decrement computes the clock plus windowMs when it resumes with the
\* collection, its update leaves that value as the record's expirationDate,
\* whether it inserts or updates, and increment returns it as resetTime.
C8_ExpiryRefreshed ==
    [][\A p \in Procs :
          ResetsExpiry(op[p].store) =>
              /\ (PrepareStep(p) /\ windowMs[op[p].store] # UndefinedMs) =>
                     newExpiry'[p] = now + windowMs[op[p].store]
              /\ UpdateStep(p) =>
                     /\ PrefixedId(p) \in DOMAIN records'
                     /\ records'[PrefixedId(p)].expirationDate = newExpiry[p]
                     /\ op[p].name = "increment" =>
                            /\ result'[p].kind = "info"
                            /\ result'[p].resetTime = newExpiry[p]
      ]_vars

\* With the option on, an update of an existing record moved its expiration
\* past the one an earlier call had written.
C8_Witness ==
    \E p, q \in Procs :
        /\ p # q
        /\ ResetsExpiry(op[p].store)
        /\ pc[p] = "done" /\ pc[q] = "done"
        /\ op[p].name \in {"increment", "decrement"}
        /\ op[q].name \in {"increment", "decrement"}
        /\ PrefixedId(p) = PrefixedId(q)
        /\ PrefixedId(p) \in DOMAIN records
        /\ applied[PrefixedId(p)].inc + applied[PrefixedId(p)].dec = 2
        /\ newExpiry[q] # InvalidDate
        /\ newExpiry[q] < newExpiry[p]
        /\ records[PrefixedId(p)].expirationDate = newExpiry[p]

\* C9 (get reads only): get returns the counter and expiration of the record
\* prefix+key, or undefined when there is none, and no step of a get call
\* changes the collection.
C9_GetReadsOnly ==
    [][\A p \in Procs :
          /\ GetStep(p) =>
                 result'[p] =
                     IF PrefixedId(p) \in DOMAIN records
                        THEN [kind |-> "info",
                              totalHits |-> records[PrefixedId(p)].counter,
                              resetTime |-> records[PrefixedId(p)].expirationDate]
                        ELSE [kind |-> "undefined"]
          /\ ((op[p].name = "get" \/ op'[p].name = "get") /\ pc'[p] # pc[p]) =>
                 records' = records
      ]_vars

\* A get found its record and returned it, the record staying as it was.
C9_Witness ==
    \E p \in Procs :
        /\ pc[p] = "done"
        /\ op[p].name = "get"
        /\ result[p].kind = "info"
        /\ PrefixedId(p) \in DOMAIN records
        /\ result[p].totalHits = records[PrefixedId(p)].counter

\* C10 (resetKey): the deleteOne of resetKey removes the record prefix+key when
\* there is one, completes without error when there is none, and leaves every
\* other record as it was; no other step of a resetKey call changes the collection.
C10_ResetKey ==
    [][\A p \in Procs :
          /\ ResetKeyStep(p) =>
                 /\ DOMAIN records' = DOMAIN records \ {PrefixedId(p)}
                 /\ \A i \in DOMAIN records' : records'[i] = records[i]
                 /\ result'[p] = [kind |-> "void"]
          /\ ((op[p].name = "resetKey" \/ op'[p].name = "resetKey")
                /\ pc'[p] # pc[p] /\ ~ResetKeyStep(p)) =>
                 records' = records
      ]_vars

\* A resetKey has completed, a get of the same key that followed returned
\* undefined, and a record with another _id is still there.
C10_Witness ==
    \E p, q \in Procs :
        /\ p < q
        /\ pc[p] = "done" /\ op[p].name = "resetKey"
        /\ pc[q] = "done" /\ op[q].name = "get"
        /\ op[q].key = op[p].key
        /\ result[q] = [kind |-> "undefined"]
        /\ PrefixedId(p) \notin DOMAIN records
        /\ DOMAIN records # {}

\* The step in which the deleteMany of caller p's resetAll is applied.
ResetAllStep(p) == op[p].name = "resetAll" /\ pc[p] = "acquired" /\ pc'[p] = "done"

\* C11 (resetAll is collection-wide): the deleteMany of resetAll leaves the
\* collection without any record, whichever store and prefix wrote them, and
\* a get that finds the collection empty returns undefined, for every key on
\* every store using the collection.
C11_ResetAllCollectionWide ==
    [][\A p \in Procs :
          /\ ResetAllStep(p) =>
                 /\ DOMAIN records' = {}
                 /\ result'[p] = [kind |-> "void"]
          /\ (GetStep(p) /\ DOMAIN records = {}) =>
                 result'[p] = [kind |-> "undefined"]
      ]_vars

\* resetAll on one store has completed, the collection is empty, and a get on
\* the other store of the key it had a record for has returned undefined.
C11_Witness ==
    /\ constructed = Stores
    /\ DOMAIN records = {}
    /\ \E p, q \in Procs :
          /\ p < q
          /\ pc[p] = "done" /\ op[p].name = "resetAll"
          /\ pc[q] = "done" /\ op[q].name = "get"
          /\ op[q].store # op[p].store
          /\ prefix[op[q].store] # prefix[op[p].store]
          /\ op[q].key = (IF op[q].store = "A" THEN <<"a">> ELSE <<"a", "a">>)
          /\ result[q] = [kind |-> "undefined"]

\* The storage step of a keyed operation of caller p: the findOneAndUpdate of
\* increment / decrement, the findOne of get, the deleteOne of resetKey.
KeyedStep(p) == UpdateStep(p) \/ GetStep(p) \/ ResetKeyStep(p)

\* Whether string a is an initial segment of string b.
IsInitialSegment(a, b) == Len(a) <= Len(b) /\ SubSeq(b, 1, Len(a)) = a

\* Whether neither prefix is an initial segment of the other.
Unnested(a, b) == ~IsInitialSegment(a, b) /\ ~IsInitialSegment(b, a)

\* Whether record id was created by a store other than s with another prefix.
Foreign(id, s) ==
    /\ applied[id].by \in constructed \ {s}
    /\ prefix[applied[id].by] # prefix[s]

\* C12 as stated (prefix isolation for all pairs of distinct prefixes): no get,
\* increment, decrement or resetKey on one store addresses or changes a record
\* created by another store with a different prefix.
C12_PrefixIsolation ==
    [][\A p \in Procs :
          KeyedStep(p) =>
              \A id \in DOMAIN records :
                  Foreign(id, op[p].store) =>
                      /\ IdOf(p) # id
                      /\ id \in DOMAIN records'
                      /\ records'[id] = records[id]
      ]_vars

\* C12 amended (prefix isolation when neither prefix is an initial segment of
\* the other): then no get, increment, decrement or resetKey on one store, for
\* any raw key, addresses or changes a record created by the other store; and
\* whatever the prefixes, a keyed operation leaves every record whose _id is
\* not its own prefix followed by its raw key as it was, so a record of the
\* other store is reached only when the two concatenations are the same string.
C12_IsolationUnlessNested ==
    [][\A p \in Procs :
          KeyedStep(p) =>
              \A id \in DOMAIN records :
                  /\ id # PrefixedId(p) =>
                         /\ IdOf(p) # id
                         /\ id \in DOMAIN records'
                         /\ records'[id] = records[id]
                  /\ (/\ Foreign(id, op[p].store)
                      /\ Unnested(prefix[applied[id].by], prefix[op[p].store])) =>
                         /\ IdOf(p) # id
                         /\ id \in DOMAIN records'
                         /\ records'[id] = records[id]
      ]_vars

\* Under the default prefix and "p", one store has created a record by an
\* increment and the other store has then incremented the same raw key: it
\* reached a record of its own, and the first record still counts one hit.
C12_Witness ==
    \E p, q \in Procs :
        /\ p < q
        /\ pc[p] = "done" /\ pc[q] = "done"
        /\ op[p].name = "increment" /\ op[q].name = "increment"
        /\ op[p].store # op[q].store
        /\ op[p].key = op[q].key
        /\ Unnested(prefix[op[p].store], prefix[op[q].store])
        /\ {PrefixedId(p), PrefixedId(q)} \subseteq DOMAIN records
        /\ applied[PrefixedId(p)].by = op[p].store
        /\ records[PrefixedId(p)].counter = 1
        /\ result[p].totalHits = 1
        /\ result[q].totalHits = records[PrefixedId(q)].counter

\* The callers whose operation on store s holds the collection handle: their
\* storage round trip is about to be sent, in flight or completed.
AtStorage(s) ==
    {p \in Procs : op[p].store = s /\ pc[p] \in {"acquired", "updating", "done"}}

\* C13 (TTL index on the URI path): for a store that connects itself with
\* createTtlIndex unset or true, the TTL index exists whenever the state is
\* initialized and whenever one of its operations holds the collection handle,
\* so before any counter read or write reaches storage; and an index exists only
\* if such a store has run a connection sequence: a store with createTtlIndex
\* false never creates it.
C13_TtlIndexBeforeUse ==
    /\ \A s \in UriStores :
          storeOptions[s].createTtlIndex # "false" =>
              /\ collectionState[s] = "initialized" => ttlIndex
              /\ AtStorage(s) # {} => ttlIndex
    /\ ttlIndex =>
          \E s \in UriStores : /\ storeOptions[s].createTtlIndex # "false"
                                /\ connects[s] >= 1

\* A store that connected itself with createTtlIndex left out has completed an
\* increment, the index being there.
C13_Witness ==
    \E s \in UriStores, p \in Procs :
        /\ storeOptions[s].createTtlIndex = Undefined
        /\ op[p].store = s
        /\ op[p].name = "increment"
        /\ pc[p] = "done"
        /\ ttlIndex
        /\ PrefixedId(p) \in DOMAIN records

\* C14 (createTtlIndex with a supplied collection): once the first increment of
\* a store constructed with a collection handle and createTtlIndex true or left
\* out has completed, the collection has the TTL index on expirationDate.
C14_TtlIndexForSuppliedCollection ==
    \A s \in CollectionStores, p \in Procs :
        (/\ storeOptions[s].createTtlIndex # "false"
         /\ op[p].store = s
         /\ op[p].name = "increment"
         /\ pc[p] = "done") => ttlIndex

\* The callers holding the answer of a completed increment of record id.
HeldIncrements(id) ==
    {p \in Procs : pc[p] = "done" /\ op[p].name = "increment" /\ PrefixedId(p) = id}

\* Whether no record can have been removed so far: the callers issue no reset
\* and there is no TTL index for the monitor to sweep by.
NothingRemoved == workload.ops \cap {"resetKey", "resetAll"} = {} /\ ~ttlIndex

\* C15 (post-image under concurrency): with no reset and no expiry, when a
\* previously absent key has had M increments and no decrement, and the callers
\* of all M still hold their answers, the totalHits they hold are exactly 1..M,
\* each value once, whatever the order in which the calls were issued and their
\* updates applied.
C15_PostImage ==
    NothingRemoved =>
        \A id \in DOMAIN records :
            (/\ applied[id].base = 0
             /\ applied[id].dec = 0
             /\ Cardinality(HeldIncrements(id)) = applied[id].inc) =>
                {result[p].totalHits : p \in HeldIncrements(id)} = 1..applied[id].inc

\* Two increments of an absent key ran concurrently and the update of the one
\* called later was applied first: it holds 1 and the one called first holds 2.
C15_Witness ==
    \E p, q \in Procs :
        /\ NothingRemoved
        /\ p < q
        /\ pc[p] = "done" /\ pc[q] = "done"
        /\ op[p] = op[q]
        /\ op[p].name = "increment"
        /\ PrefixedId(p) \in DOMAIN records
        /\ applied[PrefixedId(p)] =
               [base |-> 0, inc |-> 2, dec |-> 0, by |-> op[p].store]
        /\ result[p].totalHits = 2
        /\ result[q].totalHits = 1

\* Whether the promise getCollection returned to caller p is pending.
Pending(p) == pc[p] \in {"queued", "connecting", "indexing"}

\* C16 (liveness of waiters): when every round trip of the acquisition
\* completes, every caller whose getCollection promise is pending, initiator or
\* queued, is eventually resolved or rejected; the step that ends a round leaves
\* the queue empty and nobody of that store pending; and a caller whose promise
\* has settled keeps what it settled with and is never settled again.
C16_WaitersSettled ==
    /\ \A p \in Procs : Pending(p) ~> (pc[p] \in {"acquired", "failed"})
    /\ [][/\ \A s \in UriStores :
                RoundEnds(s) =>
                    /\ resolveOrRejectOnCollectionCreation'[s] = <<>>
                    /\ \A p \in Procs : op[p].store = s => ~Pending(p)'
          /\ \A p \in Procs :
                (pc[p] \notin {"idle", "returned"} /\ ~Pending(p)) =>
                    /\ ~Pending(p)'
                    /\ pc'[p] \in {"acquired", "failed"} => pc'[p] = pc[p]
                    /\ pc'[p] # "returned" => got'[p] = got[p]
         ]_vars

\* A queued caller and the initiator of its round have both been settled, and
\* nobody is queued or pending any more.
C16_Witness ==
    /\ \E s \in UriStores :
          /\ connects[s] >= 1
          /\ resolveOrRejectOnCollectionCreation[s] = <<>>
          /\ collectionState[s] # "initializing"
    /\ \E p, q \in Procs :
          /\ p < q
          /\ got[p] = got[q]
          /\ got[p].kind \in {"own", "error"}
          /\ pc[p] \in {"acquired", "failed"}
          /\ pc[q] \in {"acquired", "failed"}
    /\ \A p \in Procs : ~Pending(p)

\* The open clients store s connected itself.
ClientsOf(s) == {c \in openClients : c.store = s}

\* C17 (connection retention): after any sequence of acquisitions a store has
\* at most one open client of its own, and this.client refers to it.
C17_ConnectionRetained ==
    \A s \in UriStores :
        /\ Cardinality(ClientsOf(s)) <= 1
        /\ \A c \in ClientsOf(s) : client[s] = c.id

\* C18 (no init guard): an increment or decrement that resumes with the
\* collection while windowMs is still unset is not rejected: it goes on to its
\* findOneAndUpdate with an invalid date for expiration; the update is applied,
\* creating the record or changing its counter, the operation returns normally,
\* and a record it creates (or, with resetExpireDateOnChange, updates) carries
\* that invalid date, not a clock reading plus windowMs.
C18_NoInitGuard ==
    [][\A p \in Procs :
          /\ (/\ pc[p] = "acquired" /\ pc'[p] # "acquired"
              /\ op[p].name \in {"increment", "decrement"}
              /\ windowMs[op[p].store] = UndefinedMs) =>
                 /\ pc'[p] = "updating"
                 /\ newExpiry'[p] = InvalidDate
          /\ (pc[p] = "updating" /\ pc'[p] # "updating"
                /\ newExpiry[p] = InvalidDate) =>
                 LET id == PrefixedId(p)
                     old == IF id \in DOMAIN records THEN records[id].counter ELSE 0
                     delta == IF op[p].name = "increment" THEN 1 ELSE -1
                 IN  /\ pc'[p] = "done"
                     /\ result'[p].kind \in {"info", "void"}
                     /\ id \in DOMAIN records'
                     /\ records'[id].counter = old + delta
                     /\ (id \notin DOMAIN records \/ ResetsExpiry(op[p].store)) =>
                            records'[id].expirationDate = InvalidDate
      ]_vars

\* An increment called before init has completed: it created the record, with
\* counter 1 and an invalid expiration date, and returned them.
C18_Witness ==
    \E p \in Procs :
        /\ pc[p] = "done"
        /\ op[p].name = "increment"
        /\ windowMs[op[p].store] = UndefinedMs
        /\ PrefixedId(p) \in DOMAIN records
        /\ records[PrefixedId(p)] = Entry(1, InvalidDate)
        /\ result[p] = [kind |-> "info", totalHits |-> 1, resetTime |-> InvalidDate]

\* Whether every store of the run refreshes the expiration on every change.
AllResetExpiry == \A s \in constructed : ResetsExpiry(s)

\* C19 as stated (expiration never earlier): with resetExpireDateOnChange
\* true, no step moves the expirationDate of a record that exists before and
\* after it to an earlier instant.
C19_ExpiryNeverEarlier ==
    [][AllResetExpiry =>
          \A id \in DOMAIN records \cap DOMAIN records' :
              (/\ records[id].expirationDate # InvalidDate
               /\ records'[id].expirationDate # InvalidDate) =>
                  records'[id].expirationDate >= records[id].expirationDate
      ]_vars

\* C19 amended (expiration regress is bounded): with resetExpireDateOnChange
\* true and windowMs set, the update of an increment or decrement leaves as
\* expirationDate the value its own call computed, which is no earlier than the
\* time of that call plus windowMs; the stored expirationDate can so move to an
\* earlier instant when updates are applied in another order than their calls
\* read the clock, but by no more than the time the applied call has been in
\* flight.
C19_ExpiryRegressBounded ==
    [][\A p \in Procs :
          (/\ UpdateStep(p)
           /\ ResetsExpiry(op[p].store)
           /\ newExpiry[p] # InvalidDate
           /\ PrefixedId(p) \in DOMAIN records
           /\ records[PrefixedId(p)].expirationDate # InvalidDate) =>
              LET id == PrefixedId(p)
              IN  /\ records'[id].expirationDate = newExpiry[p]
                  /\ records'[id].expirationDate >= callTime[p] + windowMs[op[p].store]
                  /\ records'[id].expirationDate >=
                         records[id].expirationDate - (now - callTime[p])
      ]_vars

\* Two calls on one key read the clock at different times and the update of
\* the one that read it first was applied last: the record carries the earlier
\* of the two expirations.
C19_Witness ==
    \E p, q \in Procs :
        /\ p # q
        /\ pc[p] = "done" /\ pc[q] = "done"
        /\ ResetsExpiry(op[p].store)
        /\ op[p].name \in {"increment", "decrement"}
        /\ op[q].name \in {"increment", "decrement"}
        /\ op[p].store = op[q].store /\ op[p].key = op[q].key
        /\ PrefixedId(p) \in DOMAIN records
        /\ applied[PrefixedId(p)].inc + applied[PrefixedId(p)].dec = 2
        /\ newExpiry[p] # InvalidDate
        /\ newExpiry[p] < newExpiry[q]
        /\ records[PrefixedId(p)].expirationDate = newExpiry[p]

\* C20 (window freshness): the resetTime an increment returns is never earlier
\* than the time at which that increment was called.
C20_ResetTimeNotBeforeCall ==
    \A p \in Procs :
        (/\ pc[p] = "done"
         /\ op[p].name = "increment"
         /\ result[p].kind = "info"
         /\ result[p].resetTime # InvalidDate) =>
            result[p].resetTime >= callTime[p]

====
